---- MODULE Spec2Model ----
(***************************************************************************)
(* A model of the DTCA Apply API (src/src/server.js): the dropdown option  *)
(* cache and resolver, and the request handlers of the creation, cohort    *)
(* and signature endpoints.                                                 *)
(*                                                                         *)
(* JavaScript strings are sequences of one-character strings, so that the  *)
(* normalisation of optionIdFor and resolveCohortOptionId is computed      *)
(* character by character, as the code computes it.  A falsy string        *)
(* (undefined, null, '') is the empty sequence.                            *)
(***************************************************************************)
EXTENDS Naturals, Sequences, FiniteSets, TLC

\* ------------------------------------------------------------------------
\* Bounds of the model

\* the longest option list the remote system returns for one field
MaxOpts == 2
\* the number of pushDropdownOrText calls one resolver run makes
MaxCalls == 2
\* the number of creation requests handled concurrently
NumReq == 2

\* ------------------------------------------------------------------------
\* JavaScript string primitives

UpperChars == <<"A","B","C","D","E","F","G","H","I","J","K","L","M",
                "N","O","P","Q","R","S","T","U","V","W","X","Y","Z">>

LowerChars == <<"a","b","c","d","e","f","g","h","i","j","k","l","m",
                "n","o","p","q","r","s","t","u","v","w","x","y","z">>

DigitChars == {"0","1","2","3","4","5","6","7","8","9"}

\* the characters String.prototype.trim removes (those the model's strings use)
WhiteChars == {" "}

\* [a-z0-9]
AlnumChars == DigitChars \cup {LowerChars[i] : i \in 1..26}

IsAlnum(c) == c \in AlnumChars

\* the lower-case letter of each upper-case letter
UpperToLower == [c \in {UpperChars[i] : i \in 1..26} |->
                   LowerChars[CHOOSE i \in 1..26 : UpperChars[i] = c]]

lowerChar(c) == IF c \in DOMAIN UpperToLower THEN UpperToLower[c] ELSE c

\* String.prototype.toLowerCase
toLowerCase(s) == [i \in 1..Len(s) |-> lowerChar(s[i])]

\* s.slice(n)
Drop(s, n) == SubSeq(s, n + 1, Len(s))

\* s.startsWith(p)
StartsWith(s, p) == Len(p) <= Len(s) /\ SubSeq(s, 1, Len(p)) = p

\* String.prototype.includes: p occurs in s (the empty string occurs in any)
includes(s, p) ==
  Len(p) <= Len(s) /\ \E i \in 0..(Len(s) - Len(p)) : SubSeq(s, i + 1, i + Len(p)) = p

\* String.prototype.trim
RECURSIVE trimStart(_)
trimStart(s) ==
  IF s # <<>> /\ Head(s) \in WhiteChars THEN trimStart(Tail(s)) ELSE s

RECURSIVE trimEnd(_)
trimEnd(s) ==
  IF s # <<>> /\ s[Len(s)] \in WhiteChars THEN trimEnd(SubSeq(s, 1, Len(s) - 1)) ELSE s

trim(s) == trimEnd(trimStart(s))

\* .replace(/&amp;/g, 'and')
AmpToken == <<"&","a","m","p",";">>

RECURSIVE replaceAmp(_)
replaceAmp(s) ==
  IF s = <<>> THEN <<>>
  ELSE IF StartsWith(s, AmpToken) THEN <<"a","n","d">> \o replaceAmp(Drop(s, Len(AmpToken)))
  ELSE <<Head(s)>> \o replaceAmp(Tail(s))

\* .replace(/[^a-z0-9]+/g, ' '): every run of other characters becomes one space
RECURSIVE skipNonAlnum(_)
skipNonAlnum(s) ==
  IF s # <<>> /\ ~IsAlnum(Head(s)) THEN skipNonAlnum(Tail(s)) ELSE s

RECURSIVE replaceNonAlnum(_)
replaceNonAlnum(s) ==
  IF s = <<>> THEN <<>>
  ELSE IF IsAlnum(Head(s)) THEN <<Head(s)>> \o replaceNonAlnum(Tail(s))
  ELSE <<" ">> \o replaceNonAlnum(skipNonAlnum(s))

\* the norm of optionIdFor
norm(s) == trim(replaceNonAlnum(replaceAmp(toLowerCase(s))))

\* ------------------------------------------------------------------------
\* String literals of the source and of the inputs

S_yes == <<"y","e","s">>
S_y == <<"y">>
S_no == <<"n","o">>
S_n == <<"n">>
S_us == <<"u","s">>
S_u_s == <<"u"," ","s">>
S_u_dot_s_dot == <<"u",".","s",".">>
S_space == <<" ">>
S_i_am_ == <<"i"," ","a","m"," ">>
S_a_ == <<"a"," ">>
S_citizen == <<"c","i","t","i","z","e","n">>
S_permanent_resident == <<"p","e","r","m","a","n","e","n","t"," ","r","e","s","i","d","e","n","t">>
S_canada == <<"c","a","n","a","d","a">>
S_canadian == <<"c","a","n","a","d","i","a","n">>
S_none == <<"n","o","n","e">>
S_not_eligible == <<"n","o","t"," ","e","l","i","g","i","b","l","e">>

\* raw form values
Raw_USCitizenDots == <<"U",".","S","."," ","C","i","t","i","z","e","n">>
Raw_us_citizen == <<"u","s"," ","c","i","t","i","z","e","n">>

Raw_us_citizen_padded == <<" ","u","s"," ","c","i","t","i","z","e","n"," ">>
Raw_email == <<"a","@","b",".","c","o">>
Raw_text == <<"H","i">>
Raw_punctuation == <<"?","!">>

\* literals of resolveCohortOptionId, and cohort values of a request
S_october == <<"o","c","t","o","b","e","r">>
S_january == <<"j","a","n","u","a","r","y">>
S_dtca_2502 == <<"d","t","c","a","-","2","5","0","2">>
S_dtca_2601 == <<"d","t","c","a","-","2","6","0","1">>
S_oct == <<"o","c","t">>
S_jan == <<"j","a","n">>
Raw_DTCA2502_extra == <<"D","T","C","A","-","2","5","0","2"," ","e","x","t","r","a"," ","t","e","x","t">>
Raw_unknown == <<"u","n","k","n","o","w","n">>
Raw_January_padded == <<" ","J","a","n","u","a","r","y"," ">>

\* option names of the remote dropdown fields
Name_Yes == <<"Y","e","s">>
Name_YES == <<"Y","E","S">>
Name_No == <<"N","o">>
Name_Maybe == <<"M","a","y","b","e">>
Name_USCitizenDots == <<"U",".","S","."," ","C","i","t","i","z","e","n">>
Name_YesPlease == <<"Y","e","s"," ","p","l","e","a","s","e">>

\* ------------------------------------------------------------------------
\* Config (process.env and the CF table)

\* a value that was not configured (undefined) or is falsy
Unset == ""

CF_WORK_ELIGIBILITY == "aec8f523-e21d-4cd7-a359-d52f712009cb"
CF_RELIABLE_COMPUTER == "ba53f6aa-997f-4af6-9e52-dd4e76c31723"
\* CF.COMMITMENT_LEVEL has no default: a deployment without CF_COMMITMENT_LEVEL
CF_COMMITMENT_LEVEL == Unset
\* the other fields of the CF table, set in .env
CF_EMAIL == "CF_EMAIL"
CF_PHONE == "CF_PHONE"
CF_LOCATION == "CF_LOCATION"
CF_OTHER_LOCATION == "CF_OTHER_LOCATION"
CF_BACKGROUND_CHECK == "bda2b4d0-d66e-49ef-b315-b8dce562abfd"
CF_EDUCATION == "54a767b7-175a-46b6-b380-741c654017b2"
CF_OTHER_EDUCATION == "CF_OTHER_EDUCATION"
CF_CLASS_SCHEDULE == "90cf8381-4096-4b5c-8d8d-46f679ae7ef0"
CF_HEARD_ABOUT == "f44b2bb5-0120-40fd-97c6-17ca42c85d32"
CF_ENGAGEMENT_REQ == "CF_ENGAGEMENT_REQ"
CF_ADDITIONAL_COMMENTS == "CF_ADDITIONAL_COMMENTS"

\* process.env of a deployment that sets every optional setting
DefaultEnv ==
  [CF_DCA_VIDEO_URL |-> "CF_DCA_VIDEO_URL",
   CF_COHORT |-> "CF_COHORT",
   COHORT_OCT_ID |-> "COHORT_OCT_ID",
   COHORT_JAN_ID |-> "COHORT_JAN_ID",
   CLICKUP_CUSTOM_TASK_IDS |-> "false",
   CLICKUP_TEAM_ID |-> "CLICKUP_TEAM_ID",
   CF_GUARANTEE_SIGNED |-> "CF_GUARANTEE_SIGNED",
   CF_PAYMENT_METHOD |-> "CF_PAYMENT_METHOD"]

\* no request of an endpoint is being handled
NoRequest == [pc |-> "idle", nResp |-> 0]

\* a response of the signature endpoint: res.status(http).json({ ok, error })
SignResponse(http, ok, error) == [http |-> http, ok |-> ok, error |-> error]

\* the signature endpoint before its request is received
IdleSign ==
  [pc |-> "idle", taskId |-> Unset, customTaskId |-> Unset, sig |-> "missing",
   resolved |-> Unset, madeDir |-> FALSE, tmpDir |-> FALSE, sigFile |-> FALSE,
   pdfFile |-> FALSE, pdf |-> [written |-> FALSE, terms |-> FALSE, image |-> FALSE],
   err |-> "none", up |-> "none",
   nResolve |-> 0, nUpload |-> 0, nFieldUpdate |-> 0, nResp |-> 0,
   resp |-> SignResponse(0, FALSE, "none")]

\* a response of the payment-method endpoint
PaymentResponse(http, status, message) == [http |-> http, status |-> status, message |-> message]

\* the payment-method endpoint before its request is received
IdlePayment ==
  [pc |-> "idle", taskId |-> Unset, customTaskId |-> Unset, method |-> Unset,
   resolved |-> Unset, updates |-> <<>>, outcome |-> "none",
   nResolve |-> 0, nResp |-> 0, resp |-> PaymentResponse(0, "none", "none")]

\* ------------------------------------------------------------------------
\* State

VARIABLES
  OPTION_CACHE,    \* Map fieldId -> [{id, name}, ...]: a function on the cached field ids
  env,             \* process.env: the deployment's settings the handlers read
  custom_fields,   \* resolver run: the assignment list being built
  calls,           \* resolver run: the pushDropdownOrText calls made so far
  apply,           \* POST /api/apply: the state of each request being handled
  cohort,          \* POST /api/cohort: the state of the request
  lastFetch,       \* the dropdown fields the fetch of the refresh that completed last
                   \* returned (none when it failed)
  sign,            \* POST /api/guarantee-sign: the state of the request
  payment          \* POST /api/payment-method: the state of the request

vars == <<OPTION_CACHE, lastFetch, env, custom_fields, calls, apply, cohort, sign, payment>>

\* the variables of the resolver run, and of each endpoint
resolverVars == <<custom_fields, calls>>

\* optionIdFor's "no match": null is falsy, like the empty string, and every
\* option id of the remote system is a non-empty string
null == <<>>

\* ------------------------------------------------------------------------
\* The remote system's dropdown fields

OptionNames == {Name_Yes, Name_YES, Name_No, Name_Maybe, Name_USCitizenDots, Name_YesPlease}

IdDigits == <<"1","2","3","4","5","6","7","8","9">>

\* the id of the i-th option of a field
OptionId(i) == <<"o", IdDigits[i]>>

\* the option lists a field can have: up to MaxOpts options with different names
NameLists ==
  UNION {{nl \in [1..k -> OptionNames] : \A i, j \in 1..k : nl[i] = nl[j] => i = j}
         : k \in 0..MaxOpts}

OptionsOf(nl) == [i \in 1..Len(nl) |-> [id |-> OptionId(i), name |-> nl[i]]]

OptionLists == {OptionsOf(nl) : nl \in NameLists}

EmptyCache == [f \in {} |-> <<>>]

\* ------------------------------------------------------------------------
\* optionIdFor

\* opts.find(pred): the index of the first option satisfying pred, 0 if none
FirstIndex(S) == IF S = {} THEN 0 ELSE CHOOSE i \in S : \A j \in S : i <= j

\* OPTION_CACHE.get(fieldId) || []
cachedOptions(fieldId) ==
  IF fieldId \in DOMAIN OPTION_CACHE THEN OPTION_CACHE[fieldId] ELSE <<>>

\* the suffixes left after matching one of the alternatives alts at the head
AfterAlt(rests, alts) ==
  {Drop(r, Len(a)) : <<r, a>> \in {x \in rests \X alts : StartsWith(x[1], x[2])}}

\* the suffixes left after an optional group (p)?
AfterOpt(rests, p) == rests \cup AfterAlt(rests, {p})

\* /(^| )(i am )?(a )?(us|u s|u\.s\.) (citizen|permanent resident)/.test(u)
usCitizenRegex(u) ==
  LET starts == {u} \cup {Drop(u, k) : k \in {i \in 1..Len(u) : u[i] = " "}}
      r1 == AfterOpt(starts, S_i_am_)
      r2 == AfterOpt(r1, S_a_)
      r3 == AfterAlt(r2, {S_us, S_u_s, S_u_dot_s_dot})
      r4 == AfterAlt(r3, {S_space})
      r5 == AfterAlt(r4, {S_citizen, S_permanent_resident})
  IN r5 # {}

\* the id of opts[i], or nothing found when i = 0
idAt(opts, i) == IF i = 0 THEN null ELSE opts[i].id

\* lines 201-227: the special mapping for Work Eligibility
workEligibilityMatch(opts, u) ==
  LET on(i) == norm(opts[i].name)
      usIdx == FirstIndex({i \in 1..Len(opts) :
                 includes(on(i), S_us) /\
                 (includes(on(i), S_citizen) \/ includes(on(i), S_permanent_resident))})
      caIdx == FirstIndex({i \in 1..Len(opts) :
                 includes(on(i), S_canada) \/ includes(on(i), S_canadian)})
      noIdx == FirstIndex({i \in 1..Len(opts) :
                 includes(on(i), S_not_eligible) \/ includes(on(i), S_none)})
  IN IF (usCitizenRegex(u) \/ (includes(u, S_us) /\ includes(u, S_permanent_resident)))
        /\ usIdx # 0
     THEN opts[usIdx].id
     ELSE IF (includes(u, S_canada) \/ includes(u, S_canadian)) /\ caIdx # 0
     THEN opts[caIdx].id
     ELSE IF (includes(u, S_none) \/ includes(u, S_not_eligible)) /\ noIdx # 0
     THEN opts[noIdx].id
     ELSE null

\* lines 191-199: Yes/No shorthands
yesNoMatch(opts, u) ==
  LET yesIdx == FirstIndex({i \in 1..Len(opts) : norm(opts[i].name) = S_yes})
      noIdx == FirstIndex({i \in 1..Len(opts) : norm(opts[i].name) = S_no})
  IN IF (u = S_yes \/ u = S_y) /\ yesIdx # 0 THEN opts[yesIdx].id
     ELSE IF (u = S_no \/ u = S_n) /\ noIdx # 0 THEN opts[noIdx].id
     ELSE null

\* exactMatch comparing the option names as cached, not normalized
exactMatch_rawNames(opts, u) ==
  idAt(opts, FirstIndex({i \in 1..Len(opts) : opts[i].name = u}))

\* lines 180-182: exact normalized match
exactMatch(opts, u) ==
  idAt(opts, FirstIndex({i \in 1..Len(opts) : norm(opts[i].name) = u}))

\* the last index of a set of indexes, 0 if none
LastIndex(S) == IF S = {} THEN 0 ELSE CHOOSE i \in S : \A j \in S : j <= i

\* containsMatch keeping the last match instead of the first
containsMatch_last(opts, u) ==
  idAt(opts, LastIndex({i \in 1..Len(opts) :
               includes(u, norm(opts[i].name)) \/ includes(norm(opts[i].name), u)}))

\* lines 184-189: contains / contained-in
containsMatch(opts, u) ==
  idAt(opts, FirstIndex({i \in 1..Len(opts) :
               includes(u, norm(opts[i].name)) \/ includes(norm(opts[i].name), u)}))

\* optionIdFor trying the substring rule before the exact rule
optionIdFor_containsFirst(fieldId, raw) ==
  IF fieldId = Unset \/ raw = <<>> THEN null
  ELSE
    LET opts == cachedOptions(fieldId)
        u == norm(raw)
        exact == exactMatch(opts, u)
        contained == containsMatch(opts, u)
        shorthand == yesNoMatch(opts, u)
    IN IF Len(opts) = 0 THEN null
       ELSE IF contained # null THEN contained
       ELSE IF exact # null THEN exact
       ELSE IF shorthand # null THEN shorthand
       ELSE IF fieldId = CF_WORK_ELIGIBILITY THEN workEligibilityMatch(opts, u)
       ELSE null

\* lines 168-231
optionIdFor(fieldId, raw) ==
  IF fieldId = Unset \/ raw = <<>> THEN null
  ELSE
    LET opts == cachedOptions(fieldId)
        u == norm(raw)
        exact == exactMatch(opts, u)
        contained == containsMatch(opts, u)
        shorthand == yesNoMatch(opts, u)
    IN IF Len(opts) = 0 THEN null
       ELSE IF exact # null THEN exact
       ELSE IF contained # null THEN contained
       ELSE IF shorthand # null THEN shorthand
       ELSE IF fieldId = CF_WORK_ELIGIBILITY THEN workEligibilityMatch(opts, u)
       ELSE null

\* ------------------------------------------------------------------------
\* pushDropdownOrText: the assignment list after the call

\* pushDropdownOrText without the hasOptions test: any unmatched value is sent raw
pushDropdownOrText_rawFallback(cf, fieldId, raw) ==
  IF fieldId = Unset \/ raw = <<>> THEN cf
  ELSE
    LET id == optionIdFor(fieldId, raw)
    IN IF id # null THEN Append(cf, [id |-> fieldId, value |-> id])
       ELSE Append(cf, [id |-> fieldId, value |-> raw])

\* pushDropdownOrText sending the normalized text instead of the raw text
pushDropdownOrText_normalized(cf, fieldId, raw) ==
  IF fieldId = Unset \/ raw = <<>> THEN cf
  ELSE
    LET hasOptions == fieldId \in DOMAIN OPTION_CACHE
        id == optionIdFor(fieldId, raw)
    IN IF id # null THEN Append(cf, [id |-> fieldId, value |-> id])
       ELSE IF ~hasOptions THEN Append(cf, [id |-> fieldId, value |-> norm(raw)])
       ELSE cf

pushDropdownOrText(cf, fieldId, raw) ==
  IF fieldId = Unset \/ raw = <<>> THEN cf
  ELSE
    LET hasOptions == fieldId \in DOMAIN OPTION_CACHE
        id == optionIdFor(fieldId, raw)
    IN IF id # null THEN Append(cf, [id |-> fieldId, value |-> id])
       ELSE IF ~hasOptions THEN Append(cf, [id |-> fieldId, value |-> raw])
       ELSE cf

\* ------------------------------------------------------------------------
\* POST /api/apply (lines 267-455), multer (24-33) and the error handler
\* (699-717)

Req == 1..NumReq

\* the field definitions the list-fields fetch can return: the dropdown fields
\* of the list with their options (the list's fields change over time)
RemoteFieldDefs ==
  {EmptyCache,
   (CF_WORK_ELIGIBILITY :> OptionsOf(<<Name_USCitizenDots, Name_No>>))
     @@ (CF_RELIABLE_COMPUTER :> OptionsOf(<<Name_Yes, Name_No>>)),
   (CF_RELIABLE_COMPUTER :> OptionsOf(<<Name_No, Name_Yes>>))}

\* what the list-fields fetch of warmDropdowns can end with: cu() throws, the
\* body is not JSON, or a body with the fields
FetchOutcomes ==
  {[kind |-> "throws", fields |-> EmptyCache], [kind |-> "badjson", fields |-> EmptyCache]}
    \cup {[kind |-> "fields", fields |-> fd] : fd \in RemoteFieldDefs}

\* warmDropdowns without the clear of line 152
cacheCleared_kept == OPTION_CACHE

\* warmDropdowns, line 152: OPTION_CACHE.clear()
cacheCleared == EmptyCache

\* warmDropdowns, lines 155-165: every dropdown field of the body is set in the
\* cache; a failed fetch is caught and sets nothing
cacheAfterFetch(cache, outcome) ==
  IF outcome.kind = "fields" THEN outcome.fields @@ cache ELSE cache

\* the caches the warmDropdowns call at boot (line 722) can leave: the Map of
\* line 148 is new, and empty
BootCaches == {cacheAfterFetch(EmptyCache, o) : o \in FetchOutcomes}

\* req.body: a submission without answers, and the submission of the model
EmptyBody ==
  [email |-> <<>>, phone |-> <<>>, location |-> <<>>, otherLocation |-> <<>>,
   workEligibility |-> <<>>, reliableComputer |-> <<>>, backgroundCheck |-> <<>>,
   education |-> <<>>, otherEducation |-> <<>>, classSchedule |-> <<>>,
   commitmentLevel |-> <<>>, heardAbout |-> <<>>, engagementText |-> <<>>,
   additionalComments |-> <<>>]

FullBody ==
  [email |-> Raw_email, phone |-> <<>>, location |-> Raw_text, otherLocation |-> <<>>,
   workEligibility |-> Raw_us_citizen_padded, reliableComputer |-> S_y,
   backgroundCheck |-> S_yes, education |-> <<>>, otherEducation |-> <<>>,
   classSchedule |-> <<>>, commitmentLevel |-> S_yes, heardAbout |-> <<>>,
   engagementText |-> <<>>, additionalComments |-> Raw_text]

Bodies == {FullBody}

\* normalizePayload: every field present is trimmed
normalizePayload(body) == [k \in DOMAIN body |-> trim(body[k])]

\* if (fieldId && value) custom_fields.push({ id: fieldId, value })
pushText(cf, fieldId, value) ==
  IF fieldId # Unset /\ value # <<>> THEN Append(cf, [id |-> fieldId, value |-> value])
  ELSE cf

\* lines 285-346: the custom_fields of the task, built in the order of the code
buildCustomFields(p) ==
  LET f1 == pushText(<<>>, CF_EMAIL, p.email)
      f2 == pushText(f1, CF_PHONE, p.phone)
      f3 == IF CF_LOCATION # Unset /\ p.location # <<>>
            THEN pushDropdownOrText(f2, CF_LOCATION, p.location) ELSE f2
      f4 == pushText(f3, CF_OTHER_LOCATION, p.otherLocation)
      f5 == pushDropdownOrText(f4, CF_WORK_ELIGIBILITY, p.workEligibility)
      f6 == pushDropdownOrText(f5, CF_RELIABLE_COMPUTER, p.reliableComputer)
      f7 == pushDropdownOrText(f6, CF_BACKGROUND_CHECK, p.backgroundCheck)
      f8 == pushDropdownOrText(f7, CF_EDUCATION, p.education)
      f9 == pushText(f8, CF_OTHER_EDUCATION, p.otherEducation)
      f10 == pushDropdownOrText(f9, CF_CLASS_SCHEDULE, p.classSchedule)
      f11 == pushDropdownOrText(f10, CF_COMMITMENT_LEVEL, p.commitmentLevel)
      f12 == pushDropdownOrText(f11, CF_HEARD_ABOUT, p.heardAbout)
      f13 == pushText(f12, CF_ENGAGEMENT_REQ, p.engagementText)
  IN pushText(f13, CF_ADDITIONAL_COMMENTS, p.additionalComments)

\* a response of the creation endpoint: the HTTP status and the JSON body
Response(http, status, field, taskId, upload) ==
  [http |-> http, status |-> status, field |-> field, taskId |-> taskId, upload |-> upload]

NoResponse == Response(0, "none", Unset, Unset, Unset)

\* a request not yet received; fetch is how the list-fields fetch of the
\* warmDropdowns call that just returned to the route ended, and alone whether
\* no other refresh ran while that call did
IdleApply ==
  [pc |-> "idle", file |-> "none", body |-> EmptyBody, custom_fields |-> <<>>,
   taskId |-> Unset, uploadMsg |-> "null", created |-> "none", up |-> "none",
   setUrl |-> "none", resp |-> NoResponse,
   fetch |-> "none", alone |-> TRUE,
   nFields |-> 0, nCreate |-> 0, nUpload |-> 0, nSetUrl |-> 0, nResp |-> 0]

NoApply == [r \in Req |-> IdleApply]

\* res.json(...): the request is answered
respond(a, resp) == [a EXCEPT !.pc = "done", !.resp = resp, !.nResp = @ + 1]

\* lines 276-282, and the error handler's answers for multer's errors
validationError == Response(200, "validation_error", "videoFile", Unset, Unset)

\* lines 451-454: the outer catch
serverError == Response(200, "server_error", Unset, Unset, Unset)

\* lines 363-373
createFailed == Response(200, "clickup_create_failed", Unset, Unset, Unset)

\* lines 444-450: upload: uploadMsg || 'ok'
okResponse(a) ==
  Response(200, "ok", Unset, a.taskId, IF a.uploadMsg = "null" THEN "ok" ELSE a.uploadMsg)

\* !req.file || !req.file.buffer || !req.file.buffer.length
noVideo(file) == file \in {"none", "empty"}

\* line 270, up to the first await: the cache is cleared and the list-fields
\* fetch is issued
applyStart(a, file, body) ==
  [a EXCEPT !.pc = "warm", !.file = file, !.body = body, !.nFields = @ + 1]

\* lines 273-360, after warmDropdowns returned: the validation, the field
\* list, and the task creation call
applyBuild(w) ==
  LET a == [w EXCEPT !.fetch = "none", !.alone = TRUE]
  IN
  IF noVideo(a.file) THEN respond(a, validationError)
  ELSE [a EXCEPT !.pc = "create",
                 !.custom_fields = buildCustomFields(normalizePayload(a.body)),
                 !.nCreate = @ + 1]

\* what the task creation call can end with: the call throws, a success
\* status with a body that is not JSON, a non-success status with a JSON body
\* (truthy, or falsy such as null) or with a body that is not JSON (a gateway's
\* error page), a success with the created task's id, or a success without an
\* id
CreateOutcomes ==
  {"throws", "badjson", "rejected", "rejected_falsy", "rejected_badjson", "ok_id", "ok_noid"}

\* create.ok, line 363
createRejected(outcome) == outcome \in {"rejected", "rejected_falsy", "rejected_badjson"}

\* afterCreate without the catch of lines 451-454: the rejection is unhandled
\* and the request is left without an answer
afterCreate_noOuterCatch(a, outcome) ==
  LET b == [a EXCEPT !.created = outcome, !.custom_fields = <<>>]
  IN CASE outcome \in {"throws", "badjson", "rejected_badjson", "rejected_falsy"} ->
            [b EXCEPT !.pc = "unhandled"]
       [] outcome = "rejected" -> respond(b, createFailed)
       [] outcome = "ok_id" ->
            IF ~noVideo(b.file)
            THEN [b EXCEPT !.taskId = "t1", !.pc = "upload", !.nUpload = @ + 1]
            ELSE respond([b EXCEPT !.taskId = "t1"], okResponse([b EXCEPT !.taskId = "t1"]))
       [] outcome = "ok_noid" -> respond(b, okResponse(b))

\* lines 362-400: the creation's answer, and the attachment upload call; the
\* field list was sent with the creation call and is not used after it
afterCreate(a, outcome) ==
  LET b == [a EXCEPT !.created = outcome, !.custom_fields = <<>>]
  IN CASE outcome \in {"throws", "badjson", "rejected_badjson"} ->
            \* line 362: create.json() throws before create.ok is looked at
            respond(b, serverError)
       [] outcome = "rejected" -> respond(b, createFailed)
       \* err: created || (await create.text()): the body was read already
       [] outcome = "rejected_falsy" -> respond(b, serverError)
       [] outcome = "ok_id" ->
            IF ~noVideo(b.file)
            THEN [b EXCEPT !.taskId = "t1", !.pc = "upload", !.nUpload = @ + 1]
            ELSE respond([b EXCEPT !.taskId = "t1"], okResponse([b EXCEPT !.taskId = "t1"]))
       [] outcome = "ok_noid" -> respond(b, okResponse(b))

\* what the attachment upload call can end with: the call throws, a non-success
\* status, a success with the attachment's url or without
UploadOutcomes == {"throws", "failed", "ok_url", "ok_nourl"}

\* afterUpload without the try of line 380: the exception reaches the outer catch
afterUpload_noInnerCatch(a, outcome) ==
  LET b == [a EXCEPT !.up = outcome]
      done(msg) == respond([b EXCEPT !.uploadMsg = msg], okResponse([b EXCEPT !.uploadMsg = msg]))
  IN CASE outcome = "throws" -> respond(b, serverError)
       [] outcome = "failed" -> done("upload_failed")
       [] outcome = "ok_url" ->
            IF env.CF_DCA_VIDEO_URL # Unset
            THEN [b EXCEPT !.pc = "seturl", !.nSetUrl = @ + 1]
            ELSE done("ok")
       [] outcome = "ok_nourl" -> done("ok")

\* afterUpload with a second attempt after a non-success status
afterUpload_retry(a, outcome) ==
  LET b == [a EXCEPT !.up = outcome]
      done(msg) == respond([b EXCEPT !.uploadMsg = msg], okResponse([b EXCEPT !.uploadMsg = msg]))
  IN CASE outcome = "throws" -> done("exception")
       [] outcome = "failed" ->
            IF b.nUpload < 2 THEN [b EXCEPT !.nUpload = @ + 1] ELSE done("upload_failed")
       [] outcome = "ok_url" ->
            IF env.CF_DCA_VIDEO_URL # Unset
            THEN [b EXCEPT !.pc = "seturl", !.nSetUrl = @ + 1]
            ELSE done("ok")
       [] outcome = "ok_nourl" -> done("ok")

\* lines 402-439: the upload's outcome, and the URL field update call
afterUpload(a, outcome) ==
  LET b == [a EXCEPT !.up = outcome]
      done(msg) == respond([b EXCEPT !.uploadMsg = msg], okResponse([b EXCEPT !.uploadMsg = msg]))
  IN CASE outcome = "throws" -> done("exception")
       [] outcome = "failed" -> done("upload_failed")
       [] outcome = "ok_url" ->
            IF env.CF_DCA_VIDEO_URL # Unset
            THEN [b EXCEPT !.pc = "seturl", !.nSetUrl = @ + 1]
            ELSE done("ok")
       [] outcome = "ok_nourl" -> done("ok")

\* what the URL field update call can end with: the call throws, or a response
SetUrlOutcomes == {"throws", "returned"}

\* lines 423-439: the field update is inside the try of the upload
afterSetUrl(a, outcome) ==
  LET msg == IF outcome = "throws" THEN "exception" ELSE "ok"
      b == [a EXCEPT !.setUrl = outcome, !.uploadMsg = msg]
  IN respond(b, okResponse(b))

applyOutside == <<resolverVars, cohort, sign, payment>>

\* a warmDropdowns call of some request awaits its fetch
refreshInFlight == \E q \in Req : apply[q].pc = "warm"

\* requests are numbered in the order they arrive
nextToArrive(r) == apply[r].pc = "idle" /\ \A q \in 1..(r - 1) : apply[q].pc # "idle"

\* a request with a video, an empty file or none reaches the route
ApplyArrive(r, file, body) ==
  /\ nextToArrive(r)
  /\ OPTION_CACHE' = cacheCleared
  /\ apply' = [q \in Req |->
                IF q = r
                THEN [applyStart(apply[r], file, body) EXCEPT !.alone = ~refreshInFlight]
                ELSE IF apply[q].pc = "warm" THEN [apply[q] EXCEPT !.alone = FALSE]
                ELSE apply[q]]
  /\ UNCHANGED <<lastFetch, env, applyOutside>>

\* multer refuses the file (fileFilter, or the size limit): the error handler
\* answers and the route is not entered
ApplyRefused(r, file) ==
  /\ nextToArrive(r)
  /\ apply' = [apply EXCEPT ![r] = respond([@ EXCEPT !.file = file], validationError)]
  /\ UNCHANGED <<OPTION_CACHE, lastFetch, env, applyOutside>>

\* the list-fields fetch of the request's warmDropdowns ends
ApplyWarmDone(r, outcome) ==
  /\ apply[r].pc = "warm"
  /\ OPTION_CACHE' = cacheAfterFetch(OPTION_CACHE, outcome)
  /\ apply' = [apply EXCEPT ![r].pc = "warmed", ![r].fetch = outcome.kind]
  /\ lastFetch' = outcome.fields
  /\ UNCHANGED <<env, applyOutside>>

\* the route continues after await warmDropdowns()
ApplyBuild(r) ==
  /\ apply[r].pc = "warmed"
  /\ apply' = [apply EXCEPT ![r] = applyBuild(@)]
  /\ UNCHANGED <<OPTION_CACHE, lastFetch, env, applyOutside>>

ApplyCreateDone(r, outcome) ==
  /\ apply[r].pc = "create"
  /\ apply' = [apply EXCEPT ![r] = afterCreate(@, outcome)]
  /\ UNCHANGED <<OPTION_CACHE, lastFetch, env, applyOutside>>

ApplyUploadDone(r, outcome) ==
  /\ apply[r].pc = "upload"
  /\ apply' = [apply EXCEPT ![r] = afterUpload(@, outcome)]
  /\ UNCHANGED <<OPTION_CACHE, lastFetch, env, applyOutside>>

ApplySetUrlDone(r, outcome) ==
  /\ apply[r].pc = "seturl"
  /\ apply' = [apply EXCEPT ![r] = afterSetUrl(@, outcome)]
  /\ UNCHANGED <<OPTION_CACHE, lastFetch, env, applyOutside>>

\* the deployments: with and without the URL field of the video
ApplyEnvs == {DefaultEnv, [DefaultEnv EXCEPT !.CF_DCA_VIDEO_URL = Unset]}

Init ==
  /\ \E outcome \in FetchOutcomes :
       /\ OPTION_CACHE = cacheAfterFetch(EmptyCache, outcome)
       /\ lastFetch = outcome.fields
  /\ env \in ApplyEnvs
  /\ custom_fields = <<>>
  /\ calls = <<>>
  /\ apply = NoApply
  /\ cohort = NoRequest
  /\ sign = IdleSign
  /\ payment = IdlePayment

Next ==
  \E r \in Req :
    \/ \E file \in {"none", "empty", "video"}, body \in Bodies : ApplyArrive(r, file, body)
    \/ \E file \in {"notvideo", "toolarge"} : ApplyRefused(r, file)
    \/ \E outcome \in FetchOutcomes : ApplyWarmDone(r, outcome)
    \/ ApplyBuild(r)
    \/ \E outcome \in CreateOutcomes : ApplyCreateDone(r, outcome)
    \/ \E outcome \in UploadOutcomes : ApplyUploadDone(r, outcome)
    \/ \E outcome \in SetUrlOutcomes : ApplySetUrlDone(r, outcome)

Spec == Init /\ [][Next]_vars

\* ------------------------------------------------------------------------
\* POST /api/cohort (lines 465-520)

\* COHORT_OPTIONS, lines 69-72: process.env.COHORT_OCT_ID || null
COHORT_OPTIONS == [october |-> env.COHORT_OCT_ID, january |-> env.COHORT_JAN_ID]

\* resolveCohortOptionId accepting only the two canonical values
resolveCohortOptionId_canonicalOnly(input) ==
  LET v == toLowerCase(trim(input))
  IN IF v = S_october THEN COHORT_OPTIONS.october
     ELSE IF v = S_january THEN COHORT_OPTIONS.january
     ELSE Unset

\* lines 75-87
resolveCohortOptionId(input) ==
  LET v == toLowerCase(trim(input))
  IN IF v = S_october THEN COHORT_OPTIONS.october
     ELSE IF v = S_january THEN COHORT_OPTIONS.january
     ELSE IF includes(v, S_dtca_2502) \/ includes(v, S_oct) THEN COHORT_OPTIONS.october
     ELSE IF includes(v, S_dtca_2601) \/ includes(v, S_jan) THEN COHORT_OPTIONS.january
     ELSE Unset

\* String(process.env.CLICKUP_CUSTOM_TASK_IDS).toLowerCase() === 'true'
useCustom == env.CLICKUP_CUSTOM_TASK_IDS = "true"

\* line 486: useCustom ? (customTaskId || taskId) : taskId
idToUse(taskId, customTaskId) ==
  IF useCustom THEN (IF customTaskId # Unset THEN customTaskId ELSE taskId) ELSE taskId

\* a response of the cohort endpoint
CohortResponse(http, status, message) == [http |-> http, status |-> status, message |-> message]

\* a field-update call: POST /task/{task}/field/{field} with {value}
FieldUpdate(task, field, value, customQuery) ==
  [task |-> task, field |-> field, value |-> value, customQuery |-> customQuery]

\* lines 467-507: the checks of the request, then the field-update call
cohortStart(taskId, customTaskId, cohortValue) ==
  LET optionId == resolveCohortOptionId(cohortValue)
      id == idToUse(taskId, customTaskId)
      req == [pc |-> "done", taskId |-> taskId, customTaskId |-> customTaskId,
              cohort |-> cohortValue, updates |-> <<>>, outcome |-> "none",
              nResp |-> 1, resp |-> CohortResponse(0, "none", "none")]
  IN IF cohortValue = <<>>
     THEN [req EXCEPT !.resp = CohortResponse(400, "error", "cohort is required")]
     ELSE IF env.CF_COHORT = Unset
     THEN [req EXCEPT !.resp = CohortResponse(500, "error", "CF_COHORT not configured on server")]
     ELSE IF optionId = Unset
     THEN [req EXCEPT !.resp = CohortResponse(400, "error", "Unknown cohort value")]
     ELSE IF id = Unset
     THEN [req EXCEPT !.resp = CohortResponse(400, "error", "Missing taskId")]
     ELSE [req EXCEPT !.pc = "update", !.nResp = 0,
                      !.updates = <<FieldUpdate(id, env.CF_COHORT, optionId,
                                                useCustom /\ env.CLICKUP_TEAM_ID # Unset)>>]

\* what a field-update call can end with: the call throws, a non-success
\* status, or a success
UpdateOutcomes == {"throws", "failed", "ok"}

\* lines 509-519
cohortAfterUpdate(req, outcome) ==
  [req EXCEPT !.pc = "done", !.outcome = outcome, !.nResp = @ + 1,
              !.resp = CASE outcome = "throws" -> CohortResponse(500, "error", "server_error")
                         [] outcome = "failed" -> CohortResponse(400, "error", "clickup_update_failed")
                         [] outcome = "ok" -> CohortResponse(200, "ok", "none")]

cohortOutside == <<OPTION_CACHE, lastFetch, env, resolverVars, apply, sign, payment>>

CohortArrive(taskId, customTaskId, cohortValue) ==
  /\ cohort.pc = "idle"
  /\ cohort' = cohortStart(taskId, customTaskId, cohortValue)
  /\ UNCHANGED cohortOutside

CohortUpdateDone(outcome) ==
  /\ cohort.pc = "update"
  /\ cohort' = cohortAfterUpdate(cohort, outcome)
  /\ UNCHANGED cohortOutside

\* the task references and the cohort values of a request
TaskIds == {Unset, "86abc"}
CustomTaskIds == {Unset, "DTCA-17"}
CohortValues == {<<>>, Raw_DTCA2502_extra, Raw_unknown, Raw_January_padded}

\* the deployments: each cohort setting present or not, custom task ids or not
CohortEnvs ==
  {[DefaultEnv EXCEPT !.CF_COHORT = cf, !.COHORT_OCT_ID = oct, !.COHORT_JAN_ID = jan,
                      !.CLICKUP_CUSTOM_TASK_IDS = custom]
     : cf \in {Unset, "CF_COHORT"}, oct \in {Unset, "COHORT_OCT_ID"},
       jan \in {Unset, "COHORT_JAN_ID"}, custom \in {"false", "true"}}

InitCohort ==
  /\ OPTION_CACHE = EmptyCache
  /\ lastFetch = EmptyCache
  /\ env \in CohortEnvs
  /\ custom_fields = <<>>
  /\ calls = <<>>
  /\ apply = NoApply
  /\ cohort = NoRequest
  /\ sign = IdleSign
  /\ payment = IdlePayment

NextCohort ==
  \/ \E taskId \in TaskIds, customTaskId \in CustomTaskIds, cohortValue \in CohortValues :
       CohortArrive(taskId, customTaskId, cohortValue)
  \/ \E outcome \in UpdateOutcomes : CohortUpdateDone(outcome)

SpecCohort == InitCohort /\ [][NextCohort]_vars

\* ------------------------------------------------------------------------
\* POST /api/guarantee-sign (lines 596-687)

\* req.body.signaturePng: absent, a string without a comma, a data URL with
\* nothing after the comma, a data URL of a PNG image, a data URL whose bytes
\* are no image, or a JSON value that is not a string (a number, an object)
Signatures == {"missing", "nocomma", "emptyb64", "png", "garbage", "nonstring"}

\* line 603: (signaturePng || '').split(',')[1], truthy or not
hasB64(sig) == sig \in {"png", "garbage"}

\* line 632 without its try/catch: the exception of doc.image leaves the executor
imageOutcome_unguarded(sig) == IF sig = "png" THEN "placed" ELSE "thrown"

\* line 632: try { doc.image(imgPath, ...) } catch(_) {}
imageOutcome(sig) == IF sig = "png" THEN "placed" ELSE "swallowed"

\* the response is sent
signRespond(s, resp) == [s EXCEPT !.pc = "done", !.resp = resp, !.nResp = @ + 1]

\* lines 683-686: the catch of the route
signCatch(s, step) == signRespond([s EXCEPT !.err = step], SignResponse(500, FALSE, "server_error"))

\* lines 600-637, once resolveTaskId returned: the checks, the temporary
\* directory (mkdtempSync), the signature file (writeFileSync), and the
\* document up to doc.end()
signRender(s, resolved) ==
  LET t == [s EXCEPT !.resolved = resolved]
  IN IF resolved = Unset THEN signRespond(t, SignResponse(400, FALSE, "task_not_found"))
     \* line 603: (signaturePng || '').split is not a function
     ELSE IF t.sig = "nonstring" THEN signCatch(t, "signature")
     ELSE IF ~hasB64(t.sig) THEN signRespond(t, SignResponse(400, FALSE, "bad_signature"))
     ELSE IF imageOutcome(t.sig) = "thrown"
     THEN signCatch([t EXCEPT !.madeDir = TRUE, !.tmpDir = TRUE, !.sigFile = TRUE], "image")
     ELSE [t EXCEPT !.madeDir = TRUE, !.tmpDir = TRUE, !.sigFile = TRUE, !.pc = "render"]

\* lines 598-600 and resolveTaskId (102-110) up to its fetch
signStart(taskId, customTaskId, sig) ==
  LET s == [IdleSign EXCEPT !.taskId = taskId, !.customTaskId = customTaskId, !.sig = sig]
  IN IF taskId # Unset THEN signRender(s, taskId)
     ELSE IF customTaskId = Unset THEN signRender(s, Unset)
     ELSE [s EXCEPT !.pc = "resolve", !.nResolve = @ + 1]

\* what the task fetch of resolveTaskId can end with: the call throws, a
\* non-success status, a body that is not JSON, a task with an id or without
ResolveOutcomes == {"throws", "notok", "badjson", "ok_id", "ok_noid"}

\* resolveTaskId, lines 106-109, and the route after it
signAfterResolve(s, outcome) ==
  CASE outcome \in {"throws", "badjson"} -> signCatch(s, "resolve")
    [] outcome \in {"notok", "ok_noid"} -> signRender(s, Unset)
    [] outcome = "ok_id" -> signRender(s, "86abc")

\* what the write stream of the PDF can end with: 'finish', or 'error' before
\* the file exists or after part of it was written
PdfOutcomes == {"finish", "error_open", "error_write"}

\* lines 638-653: the promise of the document settles; the PDF is read and the
\* attachment upload call is issued
signAfterPdf(s, outcome) ==
  CASE outcome = "error_open" -> signCatch(s, "pdfStream")
    [] outcome = "error_write" -> signCatch([s EXCEPT !.pdfFile = TRUE], "pdfStream")
    [] outcome = "finish" ->
         [s EXCEPT !.pdfFile = TRUE,
                   !.pdf = [written |-> TRUE, terms |-> TRUE,
                            image |-> imageOutcome(s.sig) = "placed"],
                   !.pc = "upload", !.nUpload = @ + 1]

\* lines 665-667: cleanup temp files
signCleanup(s) == [s EXCEPT !.sigFile = FALSE, !.pdfFile = FALSE, !.tmpDir = FALSE]

\* lines 655-682: the upload's outcome, the cleanup, and the field update call
signAfterUpload(s, outcome) ==
  IF outcome = "throws" THEN signCatch([s EXCEPT !.up = outcome], "upload")
  ELSE LET t == signCleanup([s EXCEPT !.up = outcome])
       IN IF env.CF_GUARANTEE_SIGNED # Unset
          THEN [t EXCEPT !.pc = "field", !.nFieldUpdate = @ + 1]
          ELSE signRespond(t, SignResponse(200, TRUE, "none"))

\* lines 672-682: .catch(()=>{}) swallows an exception of the field update
signAfterField(s, outcome) == signRespond(s, SignResponse(200, TRUE, "none"))

signOutside == <<OPTION_CACHE, lastFetch, env, resolverVars, apply, cohort, payment>>

SignArrive(taskId, customTaskId, sig) ==
  /\ sign.pc = "idle"
  /\ sign' = signStart(taskId, customTaskId, sig)
  /\ UNCHANGED signOutside

SignResolveDone(outcome) ==
  /\ sign.pc = "resolve"
  /\ sign' = signAfterResolve(sign, outcome)
  /\ UNCHANGED signOutside

SignPdfDone(outcome) ==
  /\ sign.pc = "render"
  /\ sign' = signAfterPdf(sign, outcome)
  /\ UNCHANGED signOutside

SignUploadDone(outcome) ==
  /\ sign.pc = "upload"
  /\ sign' = signAfterUpload(sign, outcome)
  /\ UNCHANGED signOutside

SignFieldDone(outcome) ==
  /\ sign.pc = "field"
  /\ sign' = signAfterField(sign, outcome)
  /\ UNCHANGED signOutside

\* the deployments: with and without the 'Guarantee Signed' field
SignEnvs == {DefaultEnv, [DefaultEnv EXCEPT !.CF_GUARANTEE_SIGNED = Unset]}

InitSign ==
  /\ OPTION_CACHE = EmptyCache
  /\ lastFetch = EmptyCache
  /\ env \in SignEnvs
  /\ custom_fields = <<>>
  /\ calls = <<>>
  /\ apply = NoApply
  /\ cohort = NoRequest
  /\ sign = IdleSign
  /\ payment = IdlePayment

NextSign ==
  \/ \E taskId \in TaskIds, customTaskId \in CustomTaskIds, sig \in Signatures :
       SignArrive(taskId, customTaskId, sig)
  \/ \E outcome \in ResolveOutcomes : SignResolveDone(outcome)
  \/ \E outcome \in PdfOutcomes : SignPdfDone(outcome)
  \/ \E outcome \in {"throws", "failed", "ok"} : SignUploadDone(outcome)
  \/ \E outcome \in {"throws", "returned"} : SignFieldDone(outcome)

SpecSign == InitSign /\ [][NextSign]_vars

\* ------------------------------------------------------------------------
\* POST /api/payment-method (lines 537-595)

\* req.body.method: absent, one of the three keys, a string that is no key, or
\* the name of a property every object inherits
Methods == {Unset, "pay_in_full", "pay_as_you_go", "climb_loan", "bogus", "constructor"}

\* the three method keys
MethodKeys == {"pay_in_full", "pay_as_you_go", "climb_loan"}

\* the value of a property an object literal inherits from Object.prototype
InheritedProperty == "[Function: Object]"

\* optionIdMap as a lookup among its own three keys only
optionIdMap_ownKeys(method) ==
  CASE method = "pay_in_full" -> "203361fe-94f4-4173-96d9-2e7335cc6be7"
    [] method = "pay_as_you_go" -> "5f6b1dc7-b5b4-4a30-817b-8e5e5026e3a6"
    [] method = "climb_loan" -> "ff05f2a5-a7c4-42f9-8a48-bb1c6ce1eb2c"
    [] OTHER -> Unset

\* lines 557-563: optionIdMap[method], a property lookup on an object literal
optionIdMap(method) ==
  CASE method = "pay_in_full" -> "203361fe-94f4-4173-96d9-2e7335cc6be7"
    [] method = "pay_as_you_go" -> "5f6b1dc7-b5b4-4a30-817b-8e5e5026e3a6"
    [] method = "climb_loan" -> "ff05f2a5-a7c4-42f9-8a48-bb1c6ce1eb2c"
    [] method = "constructor" -> InheritedProperty
    [] OTHER -> Unset

\* line 581: JSON.stringify({ value: optionId }) leaves out a property whose
\* value is a function
jsonValue(optionId) == IF optionId = InheritedProperty THEN Unset ELSE optionId

\* the response is sent
paymentRespond(p, http, status, message) ==
  [p EXCEPT !.pc = "done", !.resp = PaymentResponse(http, status, message), !.nResp = @ + 1]

\* lines 545-582, once resolveTaskId returned: the checks, then the
\* field-update call
paymentResolved(p, resolved) ==
  LET q == [p EXCEPT !.resolved = resolved]
      id == IF useCustom THEN (IF q.customTaskId # Unset THEN q.customTaskId ELSE resolved)
            ELSE resolved
      optionId == optionIdMap(q.method)
  IN IF resolved = Unset /\ ~useCustom THEN paymentRespond(q, 400, "error", "taskId required")
     ELSE IF id = Unset THEN paymentRespond(q, 400, "error", "could not resolve task id")
     ELSE IF optionId = Unset THEN paymentRespond(q, 400, "error", "Unknown method")
     ELSE [q EXCEPT !.pc = "update",
                    !.updates = <<FieldUpdate(id, env.CF_PAYMENT_METHOD, jsonValue(optionId),
                                              useCustom /\ env.CLICKUP_TEAM_ID # Unset)>>]

\* lines 539-544 and resolveTaskId (102-110) up to its fetch
paymentStart(taskId, customTaskId, method) ==
  LET p == [IdlePayment EXCEPT !.taskId = taskId, !.customTaskId = customTaskId,
                               !.method = method]
  IN IF env.CF_PAYMENT_METHOD = Unset
     THEN paymentRespond(p, 500, "error", "CF_PAYMENT_METHOD not configured")
     ELSE IF taskId # Unset THEN paymentResolved(p, taskId)
     ELSE IF customTaskId = Unset THEN paymentResolved(p, Unset)
     ELSE [p EXCEPT !.pc = "resolve", !.nResolve = @ + 1]

\* resolveTaskId, lines 106-109, and the route after it
paymentAfterResolve(p, outcome) ==
  CASE outcome \in {"throws", "badjson"} -> paymentRespond(p, 500, "error", "server_error")
    [] outcome \in {"notok", "ok_noid"} -> paymentResolved(p, Unset)
    [] outcome = "ok_id" -> paymentResolved(p, "86abc")

\* lines 584-594
paymentAfterUpdate(p, outcome) ==
  LET q == [p EXCEPT !.outcome = outcome]
  IN CASE outcome = "throws" -> paymentRespond(q, 500, "error", "server_error")
       [] outcome = "failed" -> paymentRespond(q, 400, "error", "clickup_update_failed")
       [] outcome = "ok" -> paymentRespond(q, 200, "ok", "none")

paymentOutside == <<OPTION_CACHE, lastFetch, env, resolverVars, apply, cohort, sign>>

PaymentArrive(taskId, customTaskId, method) ==
  /\ payment.pc = "idle"
  /\ payment' = paymentStart(taskId, customTaskId, method)
  /\ UNCHANGED paymentOutside

PaymentResolveDone(outcome) ==
  /\ payment.pc = "resolve"
  /\ payment' = paymentAfterResolve(payment, outcome)
  /\ UNCHANGED paymentOutside

PaymentUpdateDone(outcome) ==
  /\ payment.pc = "update"
  /\ payment' = paymentAfterUpdate(payment, outcome)
  /\ UNCHANGED paymentOutside

\* the deployments: the payment field configured or not, custom task ids or not
PaymentEnvs ==
  {[DefaultEnv EXCEPT !.CF_PAYMENT_METHOD = cf, !.CLICKUP_CUSTOM_TASK_IDS = custom]
     : cf \in {Unset, "CF_PAYMENT_METHOD"}, custom \in {"false", "true"}}

InitPayment ==
  /\ OPTION_CACHE = EmptyCache
  /\ lastFetch = EmptyCache
  /\ env \in PaymentEnvs
  /\ custom_fields = <<>>
  /\ calls = <<>>
  /\ apply = NoApply
  /\ cohort = NoRequest
  /\ sign = IdleSign
  /\ payment = IdlePayment

NextPayment ==
  \/ \E taskId \in TaskIds, customTaskId \in CustomTaskIds, method \in Methods :
       PaymentArrive(taskId, customTaskId, method)
  \/ \E outcome \in ResolveOutcomes : PaymentResolveDone(outcome)
  \/ \E outcome \in UpdateOutcomes : PaymentUpdateDone(outcome)

SpecPayment == InitPayment /\ [][NextPayment]_vars

\* ------------------------------------------------------------------------
\* The four endpoints together: one request of each, handled concurrently.
\* Every remote call and every stream ends (it returns or it throws), and
\* the event loop then runs the continuation of the handler that awaits it.

InitHandlers ==
  /\ \E outcome \in FetchOutcomes :
       /\ OPTION_CACHE = cacheAfterFetch(EmptyCache, outcome)
       /\ lastFetch = outcome.fields
  /\ env = DefaultEnv
  /\ custom_fields = <<>>
  /\ calls = <<>>
  /\ apply = NoApply
  /\ cohort = NoRequest
  /\ sign = IdleSign
  /\ payment = IdlePayment

\* a request reaches one of the endpoints
HandlersArrive ==
  \/ \E file \in {"none", "video"} : ApplyArrive(1, file, EmptyBody)
  \/ ApplyRefused(1, "notvideo")
  \/ \E cohortValue \in {Raw_DTCA2502_extra, Raw_unknown} :
       CohortArrive("86abc", Unset, cohortValue)
  \/ \E sig \in {"nocomma", "garbage"} : SignArrive(Unset, "DTCA-17", sig)
  \/ \E method \in {"pay_in_full", "bogus"} : PaymentArrive(Unset, "DTCA-17", method)

ApplyWarmEnds == \E outcome \in FetchOutcomes : ApplyWarmDone(1, outcome)
ApplyContinues == ApplyBuild(1)
ApplyCreateEnds == \E outcome \in CreateOutcomes : ApplyCreateDone(1, outcome)
ApplyUploadEnds == \E outcome \in UploadOutcomes : ApplyUploadDone(1, outcome)
ApplySetUrlEnds == \E outcome \in SetUrlOutcomes : ApplySetUrlDone(1, outcome)
CohortUpdateEnds == \E outcome \in UpdateOutcomes : CohortUpdateDone(outcome)
SignResolveEnds == \E outcome \in ResolveOutcomes : SignResolveDone(outcome)
SignPdfEnds == \E outcome \in PdfOutcomes : SignPdfDone(outcome)
SignUploadEnds == \E outcome \in {"throws", "failed", "ok"} : SignUploadDone(outcome)
SignFieldEnds == \E outcome \in {"throws", "returned"} : SignFieldDone(outcome)
PaymentResolveEnds == \E outcome \in ResolveOutcomes : PaymentResolveDone(outcome)
PaymentUpdateEnds == \E outcome \in UpdateOutcomes : PaymentUpdateDone(outcome)

NextHandlers ==
  \/ HandlersArrive
  \/ ApplyWarmEnds
  \/ ApplyContinues
  \/ ApplyCreateEnds
  \/ ApplyUploadEnds
  \/ ApplySetUrlEnds
  \/ CohortUpdateEnds
  \/ SignResolveEnds
  \/ SignPdfEnds
  \/ SignUploadEnds
  \/ SignFieldEnds
  \/ PaymentResolveEnds
  \/ PaymentUpdateEnds

HandlersFairness ==
  /\ WF_vars(ApplyWarmEnds) /\ WF_vars(ApplyContinues) /\ WF_vars(ApplyCreateEnds)
  /\ WF_vars(ApplyUploadEnds) /\ WF_vars(ApplySetUrlEnds)
  /\ WF_vars(CohortUpdateEnds)
  /\ WF_vars(SignResolveEnds) /\ WF_vars(SignPdfEnds) /\ WF_vars(SignUploadEnds)
  /\ WF_vars(SignFieldEnds)
  /\ WF_vars(PaymentResolveEnds) /\ WF_vars(PaymentUpdateEnds)

SpecHandlers == InitHandlers /\ [][NextHandlers]_vars /\ HandlersFairness

\* ------------------------------------------------------------------------
\* The resolver run: a cache as some refresh left it, and a series of
\* pushDropdownOrText calls on one assignment list

RawValues == {<<>>, S_yes, S_y, S_n, Raw_USCitizenDots, Raw_us_citizen}

\* the calls of a run: the work-eligibility answer, a Yes/No answer, or the
\* field of a deployment that did not configure it
ResolverCalls ==
  ({CF_WORK_ELIGIBILITY} \X RawValues)
    \cup ({CF_RELIABLE_COMPUTER} \X {S_yes, S_y, S_n, Raw_punctuation})
    \cup {<<CF_COMMITMENT_LEVEL, S_yes>>}

\* the caches a refresh can leave: empty, or the options of a dropdown field
ResolverCaches ==
  {EmptyCache} \cup
  {f :> ol : f \in {CF_WORK_ELIGIBILITY, CF_RELIABLE_COMPUTER}, ol \in OptionLists}

InitResolve ==
  /\ OPTION_CACHE \in ResolverCaches
  /\ lastFetch = OPTION_CACHE
  /\ env = DefaultEnv
  /\ custom_fields = <<>>
  /\ calls = <<>>
  /\ apply = NoApply
  /\ cohort = NoRequest
  /\ sign = IdleSign
  /\ payment = IdlePayment

PushCall(fieldId, raw) ==
  /\ Len(calls) < MaxCalls
  /\ custom_fields' = pushDropdownOrText(custom_fields, fieldId, raw)
  /\ calls' = Append(calls, [fieldId |-> fieldId, raw |-> raw,
                             id |-> optionIdFor(fieldId, raw),
                             before |-> custom_fields,
                             after |-> custom_fields'])
  /\ UNCHANGED <<OPTION_CACHE, lastFetch, env, apply, cohort, sign, payment>>

NextResolve == \E c \in ResolverCalls : PushCall(c[1], c[2])

SpecResolve == InitResolve /\ [][NextResolve]_vars

\* ------------------------------------------------------------------------
\* Properties of the resolver run

Calls == {calls[k] : k \in 1..Len(calls)}

\* the normalized name of the i-th cached option of a field
normName(fieldId, i) == norm(OPTION_CACHE[fieldId][i].name)

\* the assignments of a list that name a field
AssignmentsFor(cf, fieldId) == {k \in 1..Len(cf) : cf[k].id = fieldId}

\* C2: a call for a field that has an entry in the option cache, with a raw
\* value optionIdFor finds no option for, leaves the assignment list as it
\* was: nothing is appended, in particular not the raw string.
C2_UnmatchedEnumeratedSkipped ==
  \A c \in Calls :
    (c.fieldId \in DOMAIN OPTION_CACHE /\ c.id = null)
      => /\ c.after = c.before
         /\ AssignmentsFor(c.after, c.fieldId) = AssignmentsFor(c.before, c.fieldId)

C2_Witness ==
  \E c \in Calls :
    /\ c.fieldId \in DOMAIN OPTION_CACHE
    /\ Len(OPTION_CACHE[c.fieldId]) > 0
    /\ c.raw # <<>>
    /\ c.id = null
    /\ c.after = c.before

\* C3 as stated: for every field identifier with no entry in the option
\* cache and every raw value, the call appends exactly the assignment
\* {id: field, value: raw} and keeps the earlier assignments.
C3_Original ==
  \A c \in Calls :
    (c.fieldId # Unset /\ c.fieldId \notin DOMAIN OPTION_CACHE)
      => c.after = Append(c.before, [id |-> c.fieldId, value |-> c.raw])

\* C3 as amended: for every configured (non-empty) field identifier with no
\* entry in the option cache and every non-empty raw value, the call appends
\* exactly the assignment {id: field, value: raw}, the raw value unmodified,
\* and keeps the earlier assignments; an empty raw value or field identifier
\* appends nothing.
C3_RawAppendedWhenNotCached ==
  \A c \in Calls :
    c.fieldId \notin DOMAIN OPTION_CACHE
      => IF c.fieldId # Unset /\ c.raw # <<>>
         THEN c.after = Append(c.before, [id |-> c.fieldId, value |-> c.raw])
         ELSE c.after = c.before

C3_Witness ==
  \E c \in Calls :
    /\ c.fieldId \notin DOMAIN OPTION_CACHE
    /\ c.fieldId # Unset
    /\ c.raw = Raw_USCitizenDots
    /\ c.before # <<>>
    /\ c.after = Append(c.before, [id |-> c.fieldId, value |-> Raw_USCitizenDots])

\* C5: for the work-eligibility field and every cached option list, the raw
\* values "U.S. Citizen" and "us citizen" resolve to the same result (the
\* same option id, or both null).
C5_PunctuationInsensitive ==
  \A c1, c2 \in Calls :
    (/\ c1.fieldId = CF_WORK_ELIGIBILITY /\ c1.raw = Raw_USCitizenDots
     /\ c2.fieldId = CF_WORK_ELIGIBILITY /\ c2.raw = Raw_us_citizen)
      => c1.id = c2.id

\* C6 as stated: for every field whose cached options contain one named
\* "Yes", the raw value "yes" resolves to the id of that option, whatever
\* the other options and their order.
C6_Original ==
  \A c \in Calls :
    (c.raw = S_yes /\ c.fieldId \in DOMAIN OPTION_CACHE)
      => \A i \in 1..Len(OPTION_CACHE[c.fieldId]) :
           OPTION_CACHE[c.fieldId][i].name = Name_Yes
             => c.id = OPTION_CACHE[c.fieldId][i].id

\* C6 as amended: for every field whose cached options contain one named
\* "Yes", the raw value "yes" resolves to the id of the first cached option
\* whose normalized name is "yes": that of the option named "Yes" unless an
\* earlier option's name also normalizes to "yes".
C6_YesResolvesToFirstYes ==
  \A c \in Calls :
    (c.raw = S_yes /\ c.fieldId \in DOMAIN OPTION_CACHE)
      => \A i \in 1..Len(OPTION_CACHE[c.fieldId]) :
           (/\ OPTION_CACHE[c.fieldId][i].name = Name_Yes
            /\ \A j \in 1..(i - 1) : normName(c.fieldId, j) # S_yes)
             => c.id = OPTION_CACHE[c.fieldId][i].id

C6_Witness ==
  \E c \in Calls :
    /\ c.raw = S_yes
    /\ c.fieldId \in DOMAIN OPTION_CACHE
    /\ Len(OPTION_CACHE[c.fieldId]) = 2
    /\ OPTION_CACHE[c.fieldId][1].name = Name_YesPlease
    /\ OPTION_CACHE[c.fieldId][2].name = Name_Yes
    /\ c.id = OPTION_CACHE[c.fieldId][2].id

\* the raw shorthand of an option name "yes" or "no"
Shorthands == {<<S_y, S_yes>>, <<S_n, S_no>>}

\* C7 as stated: for every field whose cached options include one whose
\* normalized name is "yes", the raw value "y" resolves to that option's id,
\* and likewise "n" for "no", whatever the other options and their order.
C7_Original ==
  \A c \in Calls : \A sh \in Shorthands :
    (c.raw = sh[1] /\ c.fieldId \in DOMAIN OPTION_CACHE)
      => \A i \in 1..Len(OPTION_CACHE[c.fieldId]) :
           normName(c.fieldId, i) = sh[2] => c.id = OPTION_CACHE[c.fieldId][i].id

\* C7 as amended: the exact and the substring rule come before the
\* shorthand rule.  For every field whose cached options include one whose
\* normalized name is "yes", the raw value "y" resolves to that option's id
\* provided no cached option's normalized name is "y" and no earlier option
\* of the list has a normalized name that is empty or contains "y"; likewise
\* "n" for "no".  Otherwise it resolves to the first option whose normalized
\* name equals the input, or else to the first one that is empty or contains
\* the input.
C7_ShorthandAfterSubstring ==
  \A c \in Calls : \A sh \in Shorthands :
    (c.raw = sh[1] /\ c.fieldId \in DOMAIN OPTION_CACHE)
      => LET n == Len(OPTION_CACHE[c.fieldId])
             exact == {j \in 1..n : normName(c.fieldId, j) = sh[1]}
             sub == {j \in 1..n : \/ normName(c.fieldId, j) = <<>>
                                  \/ includes(normName(c.fieldId, j), sh[1])}
         IN \A i \in 1..n :
              normName(c.fieldId, i) = sh[2]
                => IF exact # {}
                   THEN \E j \in exact :
                          /\ \A k \in exact : j <= k
                          /\ c.id = OPTION_CACHE[c.fieldId][j].id
                   ELSE \E j \in sub :
                          /\ \A k \in sub : j <= k
                          /\ c.id = OPTION_CACHE[c.fieldId][j].id

C7_Witness ==
  \E c \in Calls :
    /\ c.raw = S_y
    /\ c.fieldId \in DOMAIN OPTION_CACHE
    /\ Len(OPTION_CACHE[c.fieldId]) = 2
    /\ OPTION_CACHE[c.fieldId][1].name = Name_No
    /\ OPTION_CACHE[c.fieldId][2].name = Name_Yes
    /\ c.id = OPTION_CACHE[c.fieldId][2].id

\* ------------------------------------------------------------------------
\* Properties of the creation endpoint

\* the remote calls issued while handling a creation request
remoteCalls(a) == a.nFields + a.nCreate + a.nUpload + a.nSetUrl

\* C1: a creation request without a video file, or with an empty one, is
\* answered with a validation error naming videoFile, and no call to the
\* remote API is issued at any point while handling it.
C1_NoVideoNoRemoteCall ==
  \A r \in Req :
    (apply[r].pc # "idle" /\ noVideo(apply[r].file))
      => /\ remoteCalls(apply[r]) = 0
         /\ apply[r].pc = "done" => apply[r].resp = validationError

\* C4: once the task has been created, a failure of the attachment upload (a
\* non-success status, or an exception of the call) still yields a response
\* with status 'ok' that carries the created task id, with the failure detail
\* in its upload field.
C4_UploadFailureStillOk ==
  \A r \in Req :
    (apply[r].pc = "done" /\ apply[r].up \in {"throws", "failed"})
      => /\ apply[r].nResp = 1
         /\ apply[r].resp.http = 200
         /\ apply[r].resp.status = "ok"
         /\ apply[r].taskId # Unset
         /\ apply[r].resp.taskId = apply[r].taskId
         /\ apply[r].resp.upload =
              (IF apply[r].up = "throws" THEN "exception" ELSE "upload_failed")

C4_Witness ==
  \E r \in Req :
    /\ apply[r].pc = "done"
    /\ apply[r].created = "ok_id"
    /\ apply[r].nUpload = 1
    /\ apply[r].up = "throws"
    /\ apply[r].resp.status = "ok"
    /\ apply[r].resp.upload = "exception"

\* ------------------------------------------------------------------------
\* Properties of the cohort endpoint

\* the deployment configures the cohort field and both cohort option ids
cohortConfigured ==
  env.CF_COHORT # Unset /\ env.COHORT_OCT_ID # Unset /\ env.COHORT_JAN_ID # Unset

\* C8: with the cohort field and both option ids configured and the task
\* reference the deployment uses supplied, the cohort value "DTCA-2502 extra
\* text" resolves to the October option id and that id is the value of the
\* single field-update call; the value "unknown" is answered with a client
\* error (400) and no field-update call is issued.
C8_CohortResolution ==
  (/\ cohort.pc # "idle"
   /\ cohortConfigured
   /\ idToUse(cohort.taskId, cohort.customTaskId) # Unset)
    => /\ cohort.cohort = Raw_DTCA2502_extra
            => /\ Len(cohort.updates) = 1
               /\ cohort.updates[1].value = env.COHORT_OCT_ID
               /\ cohort.updates[1].field = env.CF_COHORT
               /\ cohort.updates[1].task = idToUse(cohort.taskId, cohort.customTaskId)
       /\ cohort.cohort = Raw_unknown
            => /\ cohort.updates = <<>>
               /\ cohort.pc = "done"
               /\ cohort.resp.http = 400

C8_Witness ==
  /\ cohort.pc = "done"
  /\ cohortConfigured
  /\ cohort.cohort = Raw_DTCA2502_extra
  /\ cohort.outcome = "ok"
  /\ cohort.resp.http = 200
  /\ Len(cohort.updates) = 1
  /\ cohort.updates[1].value = "COHORT_OCT_ID"

\* ------------------------------------------------------------------------
\* Properties of the signature endpoint

\* C9: on every exit path after the temporary directory has been created,
\* including a failure while writing the PDF and an exception of the upload
\* call, the temporary signature image, the temporary PDF and the temporary
\* directory no longer exist when the response is sent.
C9_TempFilesRemoved ==
  (sign.pc = "done" /\ sign.madeDir)
    => ~sign.sigFile /\ ~sign.pdfFile /\ ~sign.tmpDir

\* C10: a failure to place the signature image (unparseable image bytes) does
\* not abort the flow: the PDF with the terms text is still produced, exactly
\* one attachment upload of it is attempted, and the request is not answered
\* with a server error because of the image.
C10_BadImageSwallowed ==
  (sign.pc # "idle" /\ sign.sig = "garbage")
    => /\ sign.err # "image"
       /\ sign.nUpload <= 1
       /\ sign.pc \in {"upload", "field"} \/ (sign.pc = "done" /\ sign.up # "none")
            => /\ sign.nUpload = 1
               /\ sign.pdf.written /\ sign.pdf.terms /\ ~sign.pdf.image
       /\ (sign.pc = "done" /\ sign.resolved # Unset /\ sign.err = "none")
            => /\ sign.resp.http = 200
               /\ sign.resp.ok
               /\ sign.nUpload = 1

C10_Witness ==
  /\ sign.pc = "done"
  /\ sign.sig = "garbage"
  /\ sign.pdf.written /\ sign.pdf.terms /\ ~sign.pdf.image
  /\ sign.nUpload = 1
  /\ sign.resp.http = 200

\* ------------------------------------------------------------------------
\* Further properties of the creation endpoint

\* every kind of remote call was issued at most once for the request
atMostOnce(a) == a.nFields <= 1 /\ a.nCreate <= 1 /\ a.nUpload <= 1 /\ a.nSetUrl <= 1

\* C11 as stated: each kind of remote call is issued at most once per
\* creation request, and a request with a video whose creation call succeeded
\* issues exactly one attachment upload call.
C11_Original ==
  \A r \in Req :
    /\ atMostOnce(apply[r])
    /\ (apply[r].pc = "done" /\ apply[r].file = "video"
          /\ apply[r].created \in {"ok_id", "ok_noid"})
         => apply[r].nUpload = 1

\* C11: each kind of remote call is issued at most once per creation request,
\* whatever the calls' outcomes; a request with a video whose creation call
\* returned the task's id issues exactly one attachment upload call, and one
\* whose creation call returned no id issues none.
C11_NoRetries ==
  \A r \in Req :
    /\ atMostOnce(apply[r])
    /\ (apply[r].pc \in {"upload", "seturl", "done"} /\ apply[r].file = "video"
          /\ apply[r].created = "ok_id")
         => apply[r].nUpload = 1
    /\ (apply[r].pc = "done" /\ apply[r].created # "ok_id") => apply[r].nUpload = 0

C11_Witness ==
  \E r \in Req :
    /\ apply[r].pc = "done"
    /\ apply[r].file = "video"
    /\ apply[r].created = "ok_id"
    /\ apply[r].up = "failed"
    /\ apply[r].nFields = 1 /\ apply[r].nCreate = 1 /\ apply[r].nUpload = 1

\* C13: when the remote system rejects the task creation (a non-success
\* status), the response has status 'clickup_create_failed' with the upstream
\* body, and no attachment upload or field update is issued for the request.
C13_CreateRejectedReported ==
  \A r \in Req :
    (apply[r].pc = "done" /\ createRejected(apply[r].created))
      => /\ apply[r].resp = createFailed
         /\ apply[r].nUpload = 0
         /\ apply[r].nSetUrl = 0

\* ------------------------------------------------------------------------
\* Properties of the payment-method endpoint

\* C14: with the payment field configured and the task reference resolved,
\* each of the three method keys causes exactly one field-update call whose
\* value is the option id mapped to the key; any other or missing method key
\* is answered with 400 and no field-update call is issued.
C14_PaymentMethod ==
  (payment.pc \in {"update", "done"} /\ env.CF_PAYMENT_METHOD # Unset
     /\ payment.resolved # Unset)
    => /\ payment.method \in MethodKeys
            => /\ Len(payment.updates) = 1
               /\ payment.updates[1].value = optionIdMap_ownKeys(payment.method)
       /\ payment.method \notin MethodKeys
            => /\ payment.updates = <<>>
               /\ payment.pc = "done"
               /\ payment.resp.http = 400

\* ------------------------------------------------------------------------
\* Properties of the four endpoints together

\* the responses sent so far for the request of each endpoint
responsesSent == <<apply[1].nResp, cohort.nResp, sign.nResp, payment.nResp>>

\* the requests received so far
received == <<apply[1].pc # "idle", cohort.pc # "idle", sign.pc # "idle", payment.pc # "idle">>

\* C12: every request to the creation, cohort, payment-method and signature
\* endpoints receives exactly one response on every path: never two, and,
\* whatever the remote calls return or throw, eventually one.
C12_ExactlyOneResponse ==
  /\ [](\A i \in 1..4 : responsesSent[i] <= 1)
  /\ \A i \in 1..4 : (received[i] ~> (responsesSent[i] = 1))

C12_Witness ==
  /\ apply[1].pc = "done" /\ apply[1].created = "throws" /\ apply[1].resp = serverError
  /\ cohort.pc = "done" /\ cohort.outcome = "throws" /\ cohort.resp.http = 500
  /\ sign.pc = "done" /\ sign.err = "upload" /\ sign.resp.http = 500
  /\ payment.pc = "done" /\ payment.outcome = "throws" /\ payment.resp.http = 500
  /\ responsesSent = <<1, 1, 1, 1>>

\* ------------------------------------------------------------------------
\* Properties of the option cache under the refreshes of the creation requests

\* C15: whenever no refresh is in flight, the option cache holds exactly the
\* enumerated fields returned by the fetch of the refresh that completed last,
\* or is empty if that fetch failed; never a mixture of two fetches.
C15_CacheFromOneFetch == ~refreshInFlight => OPTION_CACHE = lastFetch

\* the fields the remote system defines as enumerated, and their option ids
RemoteEnumerated == UNION {DOMAIN fd : fd \in RemoteFieldDefs}

RemoteOptionIds(f) ==
  UNION {{fd[f][i].id : i \in 1..Len(fd[f])} : fd \in {d \in RemoteFieldDefs : f \in DOMAIN d}}

\* C16: every assignment a creation request sends for a field the remote
\* system defines as enumerated carries the id of one of that field's
\* options; raw free text is never sent as the value of an enumerated field.
C16_EnumeratedNeverRaw ==
  \A r \in Req :
    apply[r].pc = "create"
      => \A i \in 1..Len(apply[r].custom_fields) :
           apply[r].custom_fields[i].id \in RemoteEnumerated
             => apply[r].custom_fields[i].value
                  \in RemoteOptionIds(apply[r].custom_fields[i].id)

\* the list-fields fetch of the refresh failed
fetchFailed(a) == a.fetch \in {"throws", "badjson"}

\* C17: when the list-fields fetch of a refresh fails, warmDropdowns returns
\* to the route without raising and, no other refresh having run meanwhile,
\* leaves the option cache empty; the request then builds its field list from
\* the cache as it is and issues the task creation call.
C17_FailedRefreshLeavesEmpty ==
  /\ [][\A r \in Req :
          (apply[r].pc = "warm" /\ apply'[r].pc # "warm" /\ fetchFailed(apply'[r]))
            => /\ apply'[r].pc = "warmed"
               /\ apply'[r].nResp = 0
               /\ apply[r].alone => OPTION_CACHE' = EmptyCache]_vars
  /\ [][\A r \in Req :
          (apply[r].pc = "warmed" /\ fetchFailed(apply[r]) /\ apply'[r] # apply[r]
             /\ apply[r].file = "video")
            => /\ apply'[r].pc = "create"
               /\ apply'[r].nCreate = 1
               /\ apply'[r].custom_fields = buildCustomFields(normalizePayload(apply[r].body))]_vars

C17_Witness ==
  /\ apply[1].pc = "done" /\ apply[1].created = "ok_id"
  /\ apply[2].pc = "warmed" /\ apply[2].fetch = "badjson" /\ apply[2].alone
  /\ apply[2].file = "video"
  /\ OPTION_CACHE = EmptyCache

\* ------------------------------------------------------------------------
\* Properties of the URL field update of the creation endpoint

\* C18: when the attachment upload succeeded, a failure of the URL field
\* update that follows it (a non-success status, or an exception of the
\* call) is not propagated: the response has status 'ok' and reports the
\* upload as 'ok'.
C18_SetUrlFailureNotPropagated ==
  \A r \in Req :
    (apply[r].pc = "done" /\ apply[r].up = "ok_url" /\ apply[r].setUrl # "none")
      => /\ apply[r].resp.status = "ok"
         /\ apply[r].resp.upload = "ok"

\* ------------------------------------------------------------------------
\* Further properties of the resolver run

\* the cached options of a field whose normalized name equals u
exactIndexes(fieldId, u) ==
  {i \in 1..Len(OPTION_CACHE[fieldId]) : normName(fieldId, i) = u}

\* the cached options of a field whose normalized name contains u or is
\* contained in it
substringIndexes(fieldId, u) ==
  {i \in 1..Len(OPTION_CACHE[fieldId]) :
     includes(u, normName(fieldId, i)) \/ includes(normName(fieldId, i), u)}

\* C19: the rules apply in priority order: if a cached option's normalized
\* name equals the normalized input, the id of the first such option is
\* returned, even when an earlier option matches by substring; only when no
\* option matches exactly is the first option that matches by substring in
\* either direction returned.
C19_ExactBeforeSubstring ==
  \A c \in Calls :
    (c.fieldId \in DOMAIN OPTION_CACHE /\ c.raw # <<>>)
      => LET E == exactIndexes(c.fieldId, norm(c.raw))
             S == substringIndexes(c.fieldId, norm(c.raw))
         IN /\ E # {} => c.id = OPTION_CACHE[c.fieldId][FirstIndex(E)].id
            /\ (E = {} /\ S # {}) => c.id = OPTION_CACHE[c.fieldId][FirstIndex(S)].id

C19_Witness ==
  \E c \in Calls :
    /\ c.fieldId \in DOMAIN OPTION_CACHE
    /\ c.raw = S_yes
    /\ Len(OPTION_CACHE[c.fieldId]) = 2
    /\ OPTION_CACHE[c.fieldId][1].name = Name_YesPlease
    /\ OPTION_CACHE[c.fieldId][2].name = Name_Yes
    /\ c.id = OptionId(2)

\* ------------------------------------------------------------------------
\* Further properties of the signature endpoint

\* a signature payload with no base64 part after a comma
malformed(sig) == sig \in {"missing", "nocomma", "emptyb64", "nonstring"}

\* C20: a malformed signature payload (signaturePng missing, or without a
\* base64 part after a comma), for a task that is found, is answered with 400
\* bad_signature before any side effect of rendering: no temporary file or
\* directory is created, no attachment upload and no field update is issued.
C20_BadSignatureRefused ==
  (sign.pc = "done" /\ malformed(sign.sig) /\ sign.resolved # Unset)
    => /\ sign.resp = SignResponse(400, FALSE, "bad_signature")
       /\ ~sign.madeDir /\ ~sign.tmpDir /\ ~sign.sigFile /\ ~sign.pdfFile
       /\ sign.nUpload = 0
       /\ sign.nFieldUpdate = 0

\* C21: for a non-empty cached option list and a non-empty raw value whose
\* normalized form is the empty string (a value made only of punctuation),
\* optionIdFor returns null: such a value resolves to no option id.
C21_PunctuationOnlyUnresolved ==
  \A c \in Calls :
    (c.fieldId \in DOMAIN OPTION_CACHE /\ c.raw # <<>> /\ norm(c.raw) = <<>>)
      => (Len(OPTION_CACHE[c.fieldId]) > 0 => c.id = null)

\* C22: in the signature flow the 'Guarantee Signed' field is set only after
\* a successful upload of the signature PDF: a request whose attachment
\* upload returned a non-success status issues no field-update call.
C22_SignedOnlyAfterUpload ==
  (sign.up = "failed") => (sign.nFieldUpdate = 0 /\ sign.pc # "field")

\* C23: a creation response reports upload 'ok' only if, while handling that
\* request, an attachment upload call was issued and returned a success
\* status; when the creation response carries no task id and the upload step
\* is skipped, the response does not report upload 'ok'.
C23_UploadOkOnlyAfterUpload ==
  \A r \in DOMAIN apply :
    (apply[r].pc = "done" /\ apply[r].resp.status = "ok"
       /\ apply[r].resp.upload = "ok")
      => (apply[r].nUpload = 1 /\ apply[r].up \in {"ok_url", "ok_nourl"})

====
